---- MODULE Spec2Model ----
(***************************************************************************)
(* Model of hwc: the signal-binding framework (hwc/common/_base.py) and    *)
(* the Waveshare 8-channel analog output engine                            *)
(* (hwc/waveshare/analog_output.py).                                       *)
(*                                                                         *)
(* Symbolic (engineering unit) values are fixed-point integers in units of *)
(* 1/10000, so the default symbolic range (0.0, 10.0) is <<0, 100000>> and  *)
(* every decoded register value is exact.  Python's None is <<>> and a      *)
(* number n is <<n>>.  Python's True and False are the numbers 1 and 0      *)
(* (True == 1.0 holds in Python), that is <<10000>> and <<0>>.             *)
(***************************************************************************)
EXTENDS Integers, Sequences, FiniteSets, TLC

-----------------------------------------------------------------------------
(* The collection class under study: three signals declared on one class.  *)
(* The signals are class attributes: every instance of the collection      *)
(* class holds the same three Signal objects, so their state and their     *)
(* hooks are per signal, not per collection.                               *)

None == <<>>
Some(n) == <<n>>

\* dir() lists the class attributes in alphabetical order
Members == <<"ao1", "ao2", "do1">>
SignalSet == {"ao1", "ao2", "do1"}
Engines == {"e1", "e2"}
\* instances of the collection class a program creates
NumCollections == 2
Collections == 1..NumCollections
NoEngine == "none"

SignalKind == [ao1 |-> "AO", ao2 |-> "AO", do1 |-> "DO"]
device_id == [ao1 |-> 1, ao2 |-> 1, do1 |-> 2]
\* the channel_no arguments the Properties of the class are declared with
DeclaredChannels == [ao1 |-> 1, ao2 |-> 3, do1 |-> 2]
Devices == {device_id[s] : s \in SignalSet}

\* the dataclass defaults (0.0, 10.0) and (0, 10000)
DefaultSymbolicRange == <<0, 100000>>
DefaultPhysicalRange == <<0, 10000>>
CHANNELS_NUMBER == 8
STARTING_ADDRESS == 0
tries == 3

\* Python's True and False as numbers (1.0 and 0.0 in units of 1/10000)
PyBool(b) == IF b THEN 10000 ELSE 0

\* values a caller passes to the accessors: 5.0 and 11.0 (above the symbolic
\* range) to ao1, 1.2342 (between two register steps) to ao2, True and False
\* to do1
Inputs == [ao1 |-> {50000, 110000}, ao2 |-> {12342},
           do1 |-> {PyBool(TRUE), PyBool(FALSE)}]

\* the ranges a Property is constructed with: the defaults, and -5.0 .. 5.0
\* over the raw values 4 .. 20 (both bounds of both ranges off zero)
Ranges == {[symbolic |-> DefaultSymbolicRange, physical |-> DefaultPhysicalRange],
           [symbolic |-> <<-50000, 50000>>, physical |-> <<4, 20>>]}

\* channel_no arguments a Property is constructed with: inside 1 .. 8, and
\* outside it (idx = channel_no - 1 is then -8, -1 or 8)
ChannelArgs == {-7, 0, 2, 9}

\* how far beyond the ends of the ranges the arguments of encode_value and
\* decode_value go
Margin == 3

\* the immediate_update flags the signals are declared with: every kind of
\* output signal occurs with and without immediate update
UpdatePolicies == {[ao1 |-> TRUE, ao2 |-> FALSE, do1 |-> FALSE],
                   [ao1 |-> FALSE, ao2 |-> TRUE, do1 |-> TRUE]}

-----------------------------------------------------------------------------
VARIABLES
    channel_no,        \* SignalPropertiesWSAO8Ch.channel_no, per signal
    symbolic_range,    \* SignalPropertiesWSAO8Ch.symbolic_range
    physical_range,    \* SignalPropertiesWSAO8Ch.physical_range
    calc,              \* the running call of encode_value / decode_value
    offending,         \* signals whose immediate-update accessor write ended
                       \* in the range error, until an in-range accessor write
                       \* of the signal or a read_states() that succeeded
    state,             \* Signal._state
    new_state,         \* Signal._new_state
    immediate_update,  \* Signal.immediate_update
    read_hook,         \* Signal.__read_states__: the engine it is bound to
    write_hook,        \* Signal.__write_states__: the engine it is bound to
    signal_members,    \* SignalsEngine._signal_members (<<>> is None)
    engine,            \* Signals._engine (NoEngine: not constructed)
    next_index,        \* Signals._next_index
    pass,              \* per collection: what the current pass has produced
    regs,              \* the holding registers of the devices on the bus
    write_echo,        \* whether a write response carries registers
    conn,              \* per engine: the serial connection is open
    pc,                \* position of the running call
    cur,               \* the running top-level operation
    io,                \* the running engine operation
    attempts,          \* attempts the retry decorator has started
    fails,             \* attempts ended by a ModbusException
    pending,           \* devices of this attempt not yet transacted
    outbox,            \* signals_to_update of this attempt
    txlog,             \* transactions issued in the running attempt
    pre,               \* state and new_state when the engine call began
    result,            \* outcome of the running operation
    prev               \* the operation completed before the running one (kept
                       \* while idle and through a getter that follows it)

vars == <<channel_no, symbolic_range, physical_range, calc, offending,
          state, new_state, immediate_update, read_hook, write_hook,
          signal_members, engine, next_index, pass, regs, write_echo, conn,
          pc, cur, io, attempts, fails, pending, outbox, txlog, pre, result, prev>>

propvars == <<channel_no, symbolic_range, physical_range>>
declvars == <<propvars, calc, immediate_update>>
sigvars == <<state, new_state>>
bindvars == <<read_hook, write_hook, signal_members, engine>>
itervars == <<next_index, pass>>
callvars == <<io, attempts, fails, pending, outbox, txlog, pre>>

\* a register value above the physical range that a device may hold
RegOutOfRange == physical_range[2] + 1

-----------------------------------------------------------------------------
(* SignalPropertiesWSAO8Ch: transcoding                                    *)

\* Python's round(): to the nearest integer, ties to the even one
RoundHalfEven(num, den) ==
    LET f == num \div den
        r == num % den
    IN  IF 2 * r < den THEN f
        ELSE IF 2 * r > den THEN f + 1
        ELSE IF f % 2 = 0 THEN f ELSE f + 1

\* the exception encode_value raises for v, or "ok"
encode_raises(v) ==
    IF v = None THEN "TypeError"
    ELSE IF ~(symbolic_range[1] <= v[1] /\ v[1] <= symbolic_range[2]) THEN "ValueError"
    ELSE "ok"

\* (the mapping without the offset of the symbolic range)
encode_value_unshifted(v) ==
    LET den == symbolic_range[2] - symbolic_range[1]
        num == v[1] * (physical_range[2] - physical_range[1])
    IN  RoundHalfEven(num + physical_range[1] * den, den)

encode_value(v) ==
    LET den == symbolic_range[2] - symbolic_range[1]
        num == (v[1] - symbolic_range[1]) * (physical_range[2] - physical_range[1])
    IN  RoundHalfEven(num + physical_range[1] * den, den)

\* (a range check that excludes the bounds)
decode_raises_exclusive(p) ==
    IF ~(physical_range[1] < p /\ p < physical_range[2]) THEN "ValueError" ELSE "ok"

decode_raises(p) ==
    IF ~(physical_range[1] <= p /\ p <= physical_range[2]) THEN "ValueError" ELSE "ok"

decode_value(p) ==
    Some(((p - physical_range[1]) * (symbolic_range[2] - symbolic_range[1]))
            \div (physical_range[2] - physical_range[1]) + symbolic_range[1])

-----------------------------------------------------------------------------
(* Records of the running and of the previous operation                    *)

NoSnapshot == [s \in SignalSet |-> None]
NoCall == [eng |-> NoEngine, kind |-> "none"]
NoOp == [op |-> "none", sig |-> "-", coll |-> 0, unconfirmed |-> FALSE,
         after_write |-> FALSE, written |-> None, after_set |-> FALSE]
NoResult == [outcome |-> "none", value |-> None]
NoPre == [state |-> NoSnapshot, new_state |-> NoSnapshot]
NoOutbox == [d \in Devices |-> <<>>]
NoPass == [items |-> <<>>, stopped |-> FALSE, after_abandoned |-> FALSE]
NoPrev == [op |-> "other", sig |-> "-", wrote |-> FALSE, written |-> NoSnapshot]
NoCalc == [fn |-> "none", arg |-> 0, out |-> NoResult, of |-> None]

Ok(v) == [outcome |-> "ok", value |-> v]
Raised(exc) == [outcome |-> exc, value |-> None]

-----------------------------------------------------------------------------
(* Calls of the transcoding functions                                      *)

\* the numbers handed to encode_value and decode_value: every value of the
\* fixed-point grid from below the lower to above the higher of the ranges
ArgInputs(r) ==
    LET lo == IF r.symbolic[1] < r.physical[1] THEN r.symbolic[1] ELSE r.physical[1]
        hi == IF r.symbolic[2] > r.physical[2] THEN r.symbolic[2] ELSE r.physical[2]
    IN  (lo - Margin)..(hi + Margin)

\* properties.encode_value(calc.arg)
encode_value_call ==
    /\ calc.fn = "arg"
    /\ calc' = [fn |-> "encode", arg |-> calc.arg,
                out |-> IF encode_raises(Some(calc.arg)) # "ok"
                        THEN Raised(encode_raises(Some(calc.arg)))
                        ELSE Ok(Some(encode_value(Some(calc.arg)))),
                of |-> None]

\* properties.decode_value(p), p being calc.arg or what encode_value returned
\* for calc.arg
decode_value_call ==
    /\ calc.fn \in {"arg", "encode"}
    /\ calc.fn = "encode" => calc.out.outcome = "ok"
    /\ LET p == IF calc.fn = "arg" THEN calc.arg ELSE calc.out.value[1]
       IN  calc' = [fn |-> "decode", arg |-> p,
                    out |-> IF decode_raises(p) # "ok" THEN Raised(decode_raises(p))
                            ELSE Ok(decode_value(p)),
                    of |-> IF calc.fn = "arg" THEN None ELSE Some(calc.arg)]

-----------------------------------------------------------------------------
(* Typed accessors of DOSignal and AOSignal                                *)

\* bool(x) of a cached state
PyTruth(v) == IF v = None THEN FALSE ELSE v[1] # 0

\* (a getter that returns the cached state without the confirmation check)
getter_check_unchecked(s, st, nw) ==
    IF SignalKind[s] = "DO" THEN Ok(Some(PyBool(PyTruth(st[s])))) ELSE Ok(st[s])

\* (an accessor that runs its hook whenever the hook is bound)
calls_engine_bound(imm, hook) == hook # NoEngine

\* `if self.immediate_update: self.__read_states__()` (or __write_states__):
\* whether the accessor runs an engine call; an unbound hook is `lambda: None`
calls_engine(imm, hook) == imm /\ hook # NoEngine

\* the part of the getters after the immediate-update read
getter_check(s, st, nw) ==
    IF st[s] # nw[s] THEN Raised("RuntimeError")
    ELSE IF SignalKind[s] = "DO" THEN Ok(Some(PyBool(PyTruth(st[s]))))
    ELSE Ok(st[s])

-----------------------------------------------------------------------------
(* SignalEnginWSAO8Ch                                                      *)

DevIds(mem) == {device_id[mem[i]] : i \in 1..Len(mem)}

\* dict order of signals_to_update: devices by their first member
FirstMember(mem, d) == CHOOSE i \in 1..Len(mem) :
    device_id[mem[i]] = d /\ \A j \in 1..(i - 1) : device_id[mem[j]] # d

\* the position (from 1) a Python list of length n stores to for the index
\* idx, a negative index counting from the end; 0 when it raises IndexError
list_index(idx, n) ==
    IF 0 <= idx /\ idx < n THEN idx + 1
    ELSE IF -n <= idx /\ idx < 0 THEN idx + n + 1
    ELSE 0

\* the exception the encoding loop of _set_relays_states stops with, or "ok":
\* for each member, encode_value is evaluated before the store to the list
RECURSIVE first_encode_error(_, _, _)
first_encode_error(mem, nw, i) ==
    IF i > Len(mem) THEN "ok"
    ELSE IF encode_raises(nw[mem[i]]) # "ok" THEN encode_raises(nw[mem[i]])
    ELSE IF list_index(channel_no[mem[i]] - 1, CHANNELS_NUMBER) = 0 THEN "IndexError"
    ELSE first_encode_error(mem, nw, i + 1)

\* (the batch with idx = channel_no instead of channel_no - 1)
RECURSIVE signals_to_update_shifted(_, _, _, _)
signals_to_update_shifted(mem, nw, i, acc) ==
    IF i > Len(mem) THEN acc
    ELSE LET m == mem[i]
             d == device_id[m]
             row == IF acc[d] = <<>> THEN [c \in 1..CHANNELS_NUMBER |-> 0] ELSE acc[d]
         IN  signals_to_update_shifted(mem, nw, i + 1,
                 [acc EXCEPT ![d] = [row EXCEPT
                     ![list_index(channel_no[m], CHANNELS_NUMBER)] = encode_value(nw[m])]])

\* signals_to_update: per device [0] * 8, then one store per member in order
RECURSIVE signals_to_update(_, _, _, _)
signals_to_update(mem, nw, i, acc) ==
    IF i > Len(mem) THEN acc
    ELSE LET m == mem[i]
             d == device_id[m]
             row == IF acc[d] = <<>> THEN [c \in 1..CHANNELS_NUMBER |-> 0] ELSE acc[d]
         IN  signals_to_update(mem, nw, i + 1,
                 [acc EXCEPT ![d] = [row EXCEPT
                     ![list_index(channel_no[m] - 1, CHANNELS_NUMBER)] = encode_value(nw[m])]])

\* (the response mapped onto the cached state only, the pending state kept)
RECURSIVE update_cached_only(_, _, _, _, _)
update_cached_only(mem, d, registers, j, acc) ==
    IF j > Len(registers) * Len(mem) \/ acc.error # "ok" THEN acc
    ELSE LET i == (j - 1) \div Len(mem)
             m == mem[((j - 1) % Len(mem)) + 1]
             value == registers[i + 1]
         IN  IF device_id[m] = d /\ channel_no[m] = i + 1
             THEN IF decode_raises(value) # "ok"
                  THEN [acc EXCEPT !.error = decode_raises(value)]
                  ELSE update_cached_only(mem, d, registers, j + 1,
                           [acc EXCEPT !.state[m] = decode_value(value)])
             ELSE update_cached_only(mem, d, registers, j + 1, acc)

\* (the response mapped onto the pending state only, the cached state kept)
RECURSIVE update_pending_only(_, _, _, _, _)
update_pending_only(mem, d, registers, j, acc) ==
    IF j > Len(registers) * Len(mem) \/ acc.error # "ok" THEN acc
    ELSE LET i == (j - 1) \div Len(mem)
             m == mem[((j - 1) % Len(mem)) + 1]
             value == registers[i + 1]
         IN  IF device_id[m] = d /\ channel_no[m] = i + 1
             THEN IF decode_raises(value) # "ok"
                  THEN [acc EXCEPT !.error = decode_raises(value)]
                  ELSE update_pending_only(mem, d, registers, j + 1,
                           [acc EXCEPT !.new_state[m] = decode_value(value)])
             ELSE update_pending_only(mem, d, registers, j + 1, acc)

\* _update_state_on_response: for each register in order, for each member
\* in order, a matching member gets state and new_state set to the decoded
\* value; the first decode that raises ends the loops.
RECURSIVE update_state_on_response(_, _, _, _, _)
update_state_on_response(mem, d, registers, j, acc) ==
    IF j > Len(registers) * Len(mem) \/ acc.error # "ok" THEN acc
    ELSE LET i == (j - 1) \div Len(mem)
             m == mem[((j - 1) % Len(mem)) + 1]
             value == registers[i + 1]
         IN  IF device_id[m] = d /\ channel_no[m] = i + 1
             THEN IF decode_raises(value) # "ok"
                  THEN [acc EXCEPT !.error = decode_raises(value)]
                  ELSE update_state_on_response(mem, d, registers, j + 1,
                           [acc EXCEPT !.state[m] = decode_value(value),
                                       !.new_state[m] = decode_value(value)])
             ELSE update_state_on_response(mem, d, registers, j + 1, acc)

\* @retry(exceptions=ModbusException, tries=3, delay=1): the exceptions the
\* decorator catches, and whether attempt number a may be followed by another
\* (a decorator that catches every exception)
retried_any(exc) == TRUE

\* (a decorator that also catches TypeError)
retried_type_error(exc) == exc \in {"ModbusException", "TypeError"}

retried(exc) == exc = "ModbusException"

\* (a decorator that allows one attempt more)
retry_again_inclusive(a) == a <= tries

retry_again(a) == a < tries

\* (a connection closed at the end of the block only, not by an exception)
modbus_exit_on_success(exc) == exc # "ok"

\* `with self._modbus:` closes the connection however the block is left;
\* the value is whether the connection stays open
modbus_exit(exc) == FALSE

-----------------------------------------------------------------------------
(* Initial states: the class is defined, the signals and engines exist.    *)

\* registers as the devices hold them at first: all 0, or with the register
\* of channel 3 of device 1 above the physical range
InitRegs ==
    LET zero == [d \in Devices |-> [c \in 1..CHANNELS_NUMBER |-> 0]]
    IN  {zero, [zero EXCEPT ![1][3] = RegOutOfRange]}

\* the Properties as the class declares them, with the default ranges
Declared ==
    /\ channel_no = DeclaredChannels
    /\ symbolic_range = DefaultSymbolicRange
    /\ physical_range = DefaultPhysicalRange
    /\ calc = NoCalc

Idle ==
    /\ offending = {}
    /\ pc = "idle"
    /\ cur = NoOp
    /\ io = NoCall
    /\ attempts = 0
    /\ fails = 0
    /\ pending = {}
    /\ outbox = NoOutbox
    /\ txlog = <<>>
    /\ pre = NoPre
    /\ result = NoResult

\* Signal.__init__, SignalsEngine.__init__, SignalEnginWSAO8Ch.__init__
Init ==
    /\ Declared
    /\ state = [s \in SignalSet |-> None]
    /\ new_state = [s \in SignalSet |-> None]
    /\ immediate_update \in UpdatePolicies
    /\ read_hook = [s \in SignalSet |-> NoEngine]
    /\ write_hook = [s \in SignalSet |-> NoEngine]
    /\ signal_members = [e \in Engines |-> None]
    /\ engine = [k \in Collections |-> NoEngine]
    /\ next_index = [k \in Collections |-> 0]
    /\ pass = [k \in Collections |-> NoPass]
    /\ regs \in InitRegs
    /\ write_echo \in BOOLEAN
    /\ conn = [e \in Engines |-> FALSE]
    /\ prev = NoPrev
    /\ Idle

-----------------------------------------------------------------------------
(* An engine call: read_states / write_states under @retry                 *)

\* an attempt starts: _set_relays_states / _update_signals_state up to and
\* including the entry of `with self._modbus:` (a port that cannot be opened
\* shows as the failure of the first transaction).  a is the attempt's number.
\* An exception of the encoding loop leaves the call, unless the decorator
\* catches it: then every further attempt meets it again.
start_attempt(e, kind, a, nw) ==
    LET mem == signal_members[e]
        exc == IF mem = None THEN "TypeError"
               ELSE IF kind = "write" THEN first_encode_error(mem, nw, 1)
               ELSE "ok"
    IN  /\ txlog' = <<>>
        /\ IF exc # "ok"
           THEN /\ attempts' = IF retried(exc) /\ retry_again(a) THEN tries ELSE a
                /\ pc' = "done"
                /\ result' = Raised(exc)
                /\ outbox' = NoOutbox
                /\ pending' = {}
                /\ conn' = conn
           ELSE /\ attempts' = a
                /\ pc' = "tx"
                /\ result' = NoResult
                /\ outbox' = IF kind = "write" THEN signals_to_update(mem, nw, 1, NoOutbox)
                             ELSE NoOutbox
                /\ pending' = DevIds(mem)
                /\ conn' = [conn EXCEPT ![e] = TRUE]

\* the decorated method is called: the first attempt starts
begin_call(e, kind, st, nw) ==
    /\ io' = [eng |-> e, kind |-> kind]
    /\ fails' = 0
    /\ pre' = [state |-> st, new_state |-> nw]
    /\ start_attempt(e, kind, 1, nw)

\* an operation that makes no engine call ends at once
end_now(res) ==
    /\ pc' = "done"
    /\ result' = res
    /\ UNCHANGED <<callvars, conn>>

\* what the caller of the engine call gets when it returned normally
after_call(st, nw) ==
    IF cur.op = "get" THEN getter_check(cur.sig, st, nw) ELSE Ok(None)

\* the device the loop takes next: the dict signals_to_update is iterated in
\* insertion order, and CPython iterates the set {1, 2} in the same order
FirstDevice(mem, ds) ==
    CHOOSE d \in ds : \A o \in ds : FirstMember(mem, d) <= FirstMember(mem, o)

Transaction(d, ok) ==
    [eng |-> io.eng, kind |-> io.kind, device_id |-> d, address |-> STARTING_ADDRESS,
     count |-> CHANNELS_NUMBER,
     values |-> IF io.kind = "write" THEN outbox[d] ELSE <<>>, ok |-> ok]

\* an exception leaves the `with` block after the transactions in log: the
\* decorator starts the next attempt or lets the exception through
leave_block(exc, log, nw) ==
    /\ fails' = IF exc = "ModbusException" THEN fails + 1 ELSE fails
    /\ IF retried(exc) /\ retry_again(attempts)
       THEN start_attempt(io.eng, io.kind, attempts + 1, nw)
       ELSE /\ pc' = "done"
            /\ result' = Raised(exc)
            /\ txlog' = log
            /\ conn' = [conn EXCEPT ![io.eng] = modbus_exit(exc)]
            /\ pending' = {}
            /\ UNCHANGED <<attempts, outbox>>

\* a transaction raises ModbusException
TransactFails ==
    /\ pc = "tx"
    /\ leave_block("ModbusException",
                   Append(txlog, Transaction(FirstDevice(signal_members[io.eng], pending), FALSE)),
                   new_state)
    /\ UNCHANGED <<sigvars, declvars, offending, bindvars, itervars, regs, write_echo,
                   cur, io, pre, prev>>

\* a transaction succeeds: the response goes through
\* _update_state_on_response, then the loop goes on or the call returns
Transact ==
    /\ pc = "tx"
    /\ LET d == FirstDevice(signal_members[io.eng], pending)
           mem == signal_members[io.eng]
           registers == IF io.kind = "read" THEN regs[d]
                        ELSE IF write_echo THEN outbox[d] ELSE <<>>
           upd == update_state_on_response(mem, d, registers, 1,
                      [state |-> state, new_state |-> new_state, error |-> "ok"])
           log == Append(txlog, Transaction(d, TRUE))
       IN  /\ regs' = IF io.kind = "write" THEN [regs EXCEPT ![d] = outbox[d]] ELSE regs
           /\ state' = upd.state
           /\ new_state' = upd.new_state
           /\ IF upd.error # "ok"
              THEN leave_block(upd.error, log, upd.new_state)
              ELSE /\ txlog' = log
                   /\ IF pending = {d}
                      THEN /\ pc' = "done"
                           /\ result' = after_call(upd.state, upd.new_state)
                           /\ conn' = [conn EXCEPT ![io.eng] = modbus_exit("ok")]
                           /\ pending' = {}
                      ELSE /\ pc' = "tx"
                           /\ pending' = pending \ {d}
                           /\ UNCHANGED <<conn, result>>
                   /\ UNCHANGED <<attempts, fails, outbox>>
    /\ UNCHANGED <<declvars, offending, bindvars, itervars, write_echo, cur, io, pre, prev>>

\* the operation returns to its caller (or its exception reaches it)
Return ==
    /\ pc = "done"
    /\ pc' = "idle"
    /\ prev' = IF cur.op \in {"set", "write_states"}
               THEN [op |-> cur.op, sig |-> cur.sig,
                     wrote |-> io.kind = "write" /\ result.outcome = "ok",
                     written |-> IF io.kind = "write" /\ result.outcome = "ok"
                                 THEN pre.new_state ELSE NoSnapshot]
               ELSE NoPrev
    /\ cur' = NoOp
    /\ io' = NoCall
    /\ attempts' = 0
    /\ fails' = 0
    /\ pending' = {}
    /\ outbox' = NoOutbox
    /\ txlog' = <<>>
    /\ pre' = NoPre
    /\ result' = NoResult
    /\ offending' =
          IF cur.op = "set" /\ io.kind = "write" /\ result.outcome = "ValueError"
             /\ encode_raises(cur.written) = "ValueError"
          THEN offending \cup {cur.sig}
          ELSE IF io.kind = "read" /\ result.outcome \in {"ok", "RuntimeError"}
          THEN {}
          ELSE offending
    /\ UNCHANGED <<sigvars, declvars, bindvars, itervars, regs, write_echo, conn>>

-----------------------------------------------------------------------------
(* Operations of the collection and of the signals                         *)

Op(name, s, k) == [NoOp EXCEPT !.op = name, !.sig = s, !.coll = k]

\* SignalsEngine.associate_signal_members on the members of the class
associate_signal_members(e) ==
    /\ signal_members' = [signal_members EXCEPT ![e] = Members]
    /\ read_hook' = [s \in SignalSet |-> e]
    /\ write_hook' = [s \in SignalSet |-> e]

\* SignalPropertiesWSAO8Ch(device_id, channel_no=c) in the declaration of
\* signal s: the __init__ the dataclass generates stores its arguments.  The
\* class is declared before a collection of it is constructed.
SignalPropertiesWSAO8Ch_init(s, c) ==
    /\ pc = "idle"
    /\ \A k \in Collections : engine[k] = NoEngine
    /\ cur' = Op("property", s, 0)
    /\ channel_no' = [channel_no EXCEPT ![s] = c]
    /\ end_now(Ok(None))
    /\ prev' = NoPrev
    /\ UNCHANGED <<symbolic_range, physical_range, calc, offending, immediate_update, sigvars,
                   bindvars, itervars, regs, write_echo>>

\* Signals.__init__(engine)
Signals_init(k, e) ==
    /\ pc = "idle"
    /\ engine[k] = NoEngine
    /\ cur' = Op("init", "-", k)
    /\ engine' = [engine EXCEPT ![k] = e]
    /\ associate_signal_members(e)
    /\ next_index' = [next_index EXCEPT ![k] = 0]
    /\ end_now(Ok(None))
    /\ prev' = NoPrev
    /\ UNCHANGED <<sigvars, declvars, offending, pass, regs, write_echo>>

\* Signals.set_engine(engine)
set_engine(k, e) ==
    /\ pc = "idle"
    /\ engine[k] # NoEngine
    /\ cur' = Op("set_engine", "-", k)
    /\ engine' = [engine EXCEPT ![k] = e]
    /\ associate_signal_members(e)
    /\ end_now(Ok(None))
    /\ prev' = NoPrev
    /\ UNCHANGED <<sigvars, declvars, offending, itervars, regs, write_echo>>

\* Signals.read_states()
Signals_read_states(k) ==
    /\ pc = "idle"
    /\ engine[k] # NoEngine
    /\ cur' = Op("read_states", "-", k)
    /\ begin_call(engine[k], "read", state, new_state)
    /\ prev' = NoPrev
    /\ UNCHANGED <<sigvars, declvars, offending, bindvars, itervars, regs, write_echo>>

\* Signals.write_states()
Signals_write_states(k) ==
    /\ pc = "idle"
    /\ engine[k] # NoEngine
    /\ cur' = Op("write_states", "-", k)
    /\ begin_call(engine[k], "write", state, new_state)
    /\ prev' = NoPrev
    /\ UNCHANGED <<sigvars, declvars, offending, bindvars, itervars, regs, write_echo>>

\* DOSignal.state / AOSignal.value, read.  The record of the call notes what
\* the getter follows: a write_states() that returned (and the value then
\* pending for s), or an accessor write of s that no hardware write followed.
Getter(s) ==
    /\ pc = "idle"
    /\ cur' = [Op("get", s, 0) EXCEPT
                  !.unconfirmed = state[s] # new_state[s],
                  !.after_write = prev.wrote,
                  !.written = prev.written[s],
                  !.after_set = prev.op = "set" /\ prev.sig = s /\ ~prev.wrote]
    /\ IF calls_engine(immediate_update[s], read_hook[s])
       THEN begin_call(read_hook[s], "read", state, new_state)
       ELSE end_now(getter_check(s, state, new_state))
    /\ prev' = NoPrev
    /\ UNCHANGED <<sigvars, declvars, offending, bindvars, itervars, regs, write_echo>>

\* DOSignal.state / AOSignal.value, write
Setter(s, v) ==
    /\ pc = "idle"
    /\ cur' = [Op("set", s, 0) EXCEPT !.unconfirmed = state[s] # Some(v),
                                      !.written = Some(v)]
    /\ new_state' = [new_state EXCEPT ![s] = Some(v)]
    /\ IF calls_engine(immediate_update[s], write_hook[s])
       THEN begin_call(write_hook[s], "write", state, new_state')
       ELSE end_now(Ok(None))
    /\ prev' = NoPrev
    /\ offending' = IF encode_raises(Some(v)) = "ok" THEN offending \ {s} ELSE offending
    /\ UNCHANGED <<state, declvars, bindvars, itervars, regs, write_echo>>

\* (an __iter__ that keeps the cursor where the last pass left it)
keep_index(i) == i

\* the cursor __iter__ sets
reset_index(i) == 0

\* Signals.__iter__: a pass begins
Signals_iter(k) ==
    /\ pc = "idle"
    /\ engine[k] # NoEngine
    /\ cur' = Op("iter", "-", k)
    /\ next_index' = [next_index EXCEPT ![k] = reset_index(next_index[k])]
    /\ pass' = [pass EXCEPT ![k] = [items |-> <<>>, stopped |-> FALSE,
                    after_abandoned |-> pass[k].items # <<>> /\ ~pass[k].stopped]]
    /\ end_now(Ok(None))
    /\ prev' = NoPrev
    /\ UNCHANGED <<sigvars, declvars, offending, bindvars, regs, write_echo>>

\* Signals.__next__
Signals_next(k) ==
    /\ pc = "idle"
    /\ engine[k] # NoEngine
    /\ cur' = Op("next", "-", k)
    /\ IF next_index[k] < Len(Members)
       THEN /\ next_index' = [next_index EXCEPT ![k] = next_index[k] + 1]
            /\ pass' = [pass EXCEPT ![k].items = Append(@, Members[next_index[k] + 1])]
            /\ end_now(Ok(None))
       ELSE /\ next_index' = next_index
            /\ pass' = [pass EXCEPT ![k].stopped = TRUE]
            /\ end_now(Raised("StopIteration"))
    /\ prev' = NoPrev
    /\ UNCHANGED <<sigvars, declvars, offending, bindvars, regs, write_echo>>

-----------------------------------------------------------------------------
(* Specifications                                                          *)

\* the state after `signals = AOSignals(engine)`: collection 1 on engine e1
Built ==
    /\ Declared
    /\ state = [s \in SignalSet |-> None]
    /\ new_state = [s \in SignalSet |-> None]
    /\ immediate_update \in UpdatePolicies
    /\ read_hook = [s \in SignalSet |-> "e1"]
    /\ write_hook = [s \in SignalSet |-> "e1"]
    /\ signal_members = [e \in Engines |-> IF e = "e1" THEN Members ELSE None]
    /\ engine = [k \in Collections |-> IF k = 1 THEN "e1" ELSE NoEngine]
    /\ next_index = [k \in Collections |-> 0]
    /\ pass = [k \in Collections |-> NoPass]
    /\ regs \in InitRegs
    /\ write_echo \in BOOLEAN
    /\ conn = [e \in Engines |-> FALSE]
    /\ prev = NoPrev
    /\ Idle

\* transfers: accessors and bulk calls on one constructed collection
Next ==
    \/ Signals_read_states(1)
    \/ Signals_write_states(1)
    \/ \E s \in SignalSet : Getter(s)
    \/ \E s \in SignalSet : \E v \in Inputs[s] : Setter(s, v)
    \/ TransactFails
    \/ Transact
    \/ Return

Spec == Built /\ [][Next]_vars

\* bindings: collections of the class are constructed and given engines, and
\* getters run what the signals' hooks are bound to
NextBind ==
    \/ \E k \in Collections, e \in Engines : Signals_init(k, e)
    \/ \E k \in Collections, e \in Engines : set_engine(k, e)
    \/ \E s \in SignalSet : Getter(s)
    \/ TransactFails
    \/ Transact
    \/ Return

SpecBind == Init /\ [][NextBind]_vars

\* iteration over constructed collections
NextIter ==
    \/ \E k \in Collections, e \in Engines : Signals_init(k, e)
    \/ \E k \in Collections : Signals_iter(k)
    \/ \E k \in Collections : Signals_next(k)
    \/ Return

SpecIter == Init /\ [][NextIter]_vars

\* configuration: the class is declared with channel numbers, a collection
\* is constructed, values are written (the transport does not fail)
NextConfig ==
    \/ \E s \in SignalSet, c \in ChannelArgs : SignalPropertiesWSAO8Ch_init(s, c)
    \/ Signals_init(1, "e1")
    \/ \E s \in SignalSet : \E v \in Inputs[s] : Setter(s, v)
    \/ Signals_write_states(1)
    \/ Transact
    \/ Return

SpecConfig == Init /\ [][NextConfig]_vars

\* transcoding: a Property is constructed with ranges, and its functions are
\* applied to a number
InitTranscode ==
    /\ channel_no = DeclaredChannels
    /\ \E r \in Ranges :
          /\ symbolic_range = r.symbolic
          /\ physical_range = r.physical
          /\ calc \in {[fn |-> "arg", arg |-> v, out |-> NoResult, of |-> None] :
                          v \in ArgInputs(r)}
    /\ state = [s \in SignalSet |-> None]
    /\ new_state = [s \in SignalSet |-> None]
    /\ immediate_update = [s \in SignalSet |-> FALSE]
    /\ read_hook = [s \in SignalSet |-> NoEngine]
    /\ write_hook = [s \in SignalSet |-> NoEngine]
    /\ signal_members = [e \in Engines |-> None]
    /\ engine = [k \in Collections |-> NoEngine]
    /\ next_index = [k \in Collections |-> 0]
    /\ pass = [k \in Collections |-> NoPass]
    /\ regs = [d \in Devices |-> [c \in 1..CHANNELS_NUMBER |-> 0]]
    /\ write_echo = FALSE
    /\ conn = [e \in Engines |-> FALSE]
    /\ prev = NoPrev
    /\ Idle

transvars == <<channel_no, symbolic_range, physical_range, offending, sigvars, immediate_update,
               bindvars, itervars, regs, write_echo, conn, pc, cur, callvars,
               result, prev>>

NextTranscode ==
    \/ encode_value_call /\ UNCHANGED transvars
    \/ decode_value_call /\ UNCHANGED transvars

SpecTranscode == InitTranscode /\ [][NextTranscode]_vars

-----------------------------------------------------------------------------
(* Properties of the transfers (under Spec)                                *)

\* an engine call (bulk call or immediate-update accessor) has ended
CallDone(kind) == pc = "done" /\ io.kind = kind
AnyCallDone == pc = "done" /\ io.kind # "none"

\* what a getter of s returns for the cached value v
AccessorValue(s, v) == IF SignalKind[s] = "DO" THEN Some(PyBool(PyTruth(v))) ELSE v

\* the member on channel c of device d, if any
MembersAt(d, c) == {m \in SignalSet : device_id[m] = d /\ channel_no[m] = c}

AllEncodable(nw) == \A m \in SignalSet : encode_raises(nw[m]) = "ok"
AllDecodable(rg) == \A m \in SignalSet : decode_raises(rg[device_id[m]][channel_no[m]]) = "ok"

\* the log holds exactly one transaction of the kind for each device that
\* has a member, all of them completed, and no other
OnePerDevice(log, kind) ==
    /\ Len(log) = Cardinality(DevIds(Members))
    /\ \A d \in DevIds(Members) : \E i \in 1..Len(log) : log[i].device_id = d
    /\ \A i \in 1..Len(log) :
          /\ log[i].device_id \in DevIds(Members)
          /\ log[i].kind = kind
          /\ log[i].ok
          /\ log[i].address = 0
          /\ log[i].count = 8

\* C1: once write_states() has returned without error, the getter of an
\* output signal whose pending value was in range, called next (and meeting
\* no transport failure itself), returns that value and raises nothing.
C1_ReadAfterWrite ==
    (pc = "done" /\ cur.op = "get" /\ cur.after_write /\ fails = 0
        /\ encode_raises(cur.written) = "ok")
    => (result.outcome = "ok" /\ result.value = AccessorValue(cur.sig, cur.written))

\* C2: an accessor write of a value that differs from the cached state,
\* followed by the getter with no successful hardware write in between,
\* ends in the unconfirmed-read error and returns no value (the getter
\* itself meeting no transport failure and no undecodable register).
C2_ReadAfterSet ==
    (pc = "done" /\ cur.op = "get" /\ cur.after_set /\ cur.unconfirmed
        /\ fails = 0 /\ AllDecodable(regs))
    => (result.outcome = "RuntimeError" /\ result.value = None)

\* C2 as amended: the same for a signal whose immediate update is disabled
\* (its getter reads nothing from the hardware before the check).
C2_ReadAfterSetNoImmediate ==
    (pc = "done" /\ cur.op = "get" /\ cur.after_set /\ cur.unconfirmed
        /\ ~immediate_update[cur.sig])
    => (result.outcome = "RuntimeError" /\ result.value = None)

C2_Witness ==
    /\ pc = "done" /\ cur.op = "get" /\ cur.after_set /\ cur.unconfirmed
    /\ ~immediate_update[cur.sig]
    /\ result.outcome = "RuntimeError"

\* C3: a call makes at most 3 attempts; it ends in the transport error
\* exactly when 3 attempts failed on the transport; after fewer transport
\* failures, an attempt whose transactions all complete and decode makes
\* the call return successfully.
C3_BoundedRetry ==
    /\ attempts <= tries
    /\ AnyCallDone =>
          /\ fails <= attempts
          /\ (result.outcome = "ModbusException") = (fails = tries)
          /\ (fails < tries /\ result.outcome \notin {"ValueError", "TypeError"})
                => (result.outcome = "ok" /\ attempts = fails + 1
                    /\ OnePerDevice(txlog, io.kind))

C3_Witness ==
    AnyCallDone /\ fails = 2 /\ attempts = 3 /\ result.outcome = "ok"

\* C4: when a call ends in the transport error, every signal's cached and
\* pending state are what they were when the call began.
C4_NoMutationOnFailure ==
    (AnyCallDone /\ result.outcome = "ModbusException")
    => (state = pre.state /\ new_state = pre.new_state)

\* C5: a write_states() call that meets no transport failure (the pending
\* values all being encodable) issues exactly one write transaction per
\* device that has a member and no other; its 8 values hold the encoded
\* pending value at index channel - 1 for each member and 0 elsewhere.
C5_WriteBatches ==
    (CallDone("write") /\ fails = 0 /\ AllEncodable(pre.new_state))
    => /\ result.outcome = "ok"
       /\ OnePerDevice(txlog, "write")
       /\ \A i \in 1..Len(txlog) :
             /\ Len(txlog[i].values) = 8
             /\ \A c \in 1..8 :
                   /\ \A m \in MembersAt(txlog[i].device_id, c) :
                         txlog[i].values[c] = encode_value(pre.new_state[m])
                   /\ MembersAt(txlog[i].device_id, c) = {} => txlog[i].values[c] = 0

C5_Witness ==
    /\ CallDone("write") /\ fails = 0 /\ result.outcome = "ok"
    /\ \E i \in 1..Len(txlog) : txlog[i].values[1] # 0 /\ txlog[i].values[3] # 0

\* C6: a read_states() call that meets no transport failure (the registers
\* of the members all being decodable) issues exactly one read transaction
\* (start 0, count 8) per device of the members, and then every member's
\* cached and pending state equal the decoded register of its channel.
C6_ReadUpdates ==
    (CallDone("read") /\ fails = 0 /\ AllDecodable(regs))
    => /\ result.outcome = "ok"
       /\ OnePerDevice(txlog, "read")
       /\ \A m \in SignalSet :
             /\ state[m] = decode_value(regs[device_id[m]][channel_no[m]])
             /\ new_state[m] = decode_value(regs[device_id[m]][channel_no[m]])

C6_Witness ==
    /\ CallDone("read") /\ fails = 0 /\ result.outcome = "ok"
    /\ \E m \in SignalSet : pre.new_state[m] # None /\ pre.new_state[m] # new_state[m]
    /\ \E m \in SignalSet : state[m] # Some(0)

\* C8: whenever no engine call is running (it has returned or raised, by
\* whatever path), no transport connection is open.
C8_ConnectionReleased ==
    pc \in {"done", "idle"} => \A e \in Engines : ~conn[e]

C8_Witness ==
    /\ CallDone("read") /\ result.outcome = "ValueError" /\ Len(txlog) > 0

\* C9: a call that ends in a range error made a single attempt, and in the
\* write case issued no transaction.
C9_RangeErrorSingleAttempt ==
    (AnyCallDone /\ result.outcome = "ValueError")
    => (attempts = 1 /\ (io.kind = "write" => txlog = <<>>))

\* C9 as amended: the attempt that meets a range error is the last one (all
\* attempts before it ended in a transport failure); in the write case it is
\* the first attempt, and no transaction is issued and no connection opened.
C9_RangeErrorNotRetried ==
    (AnyCallDone /\ result.outcome = "ValueError")
    => /\ attempts = fails + 1
       /\ io.kind = "write" => (attempts = 1 /\ txlog = <<>> /\ pending = {})

C9_Witness ==
    \/ CallDone("write") /\ result.outcome = "ValueError" /\ cur.op = "write_states"
    \/ CallDone("read") /\ result.outcome = "ValueError" /\ attempts = 2

Unconfirmed(s) == state[s] # new_state[s]

\* C14: while a signal is Unconfirmed, no step of a read (read_states, or
\* the read of an immediate-update getter) changes its pending value, and
\* it becomes Confirmed only in a hardware write, in a read that leaves its
\* pending value as it was, or in an accessor write of it.
C14_PendingKeptUntilConfirmed ==
    [][\A s \in SignalSet : Unconfirmed(s) =>
          /\ io.kind = "read" => new_state'[s] = new_state[s]
          /\ ~Unconfirmed(s)' =>
                \/ pc = "tx" /\ io.kind = "write"
                \/ pc = "tx" /\ io.kind = "read" /\ new_state'[s] = new_state[s]
                \/ pc = "idle" /\ cur'.op = "set" /\ cur'.sig = s]_vars

\* C14 as amended: the pending value of an Unconfirmed signal changes only
\* in an accessor write of it (the cached state staying) or when the
\* response of a transaction is mapped onto it, which sets its cached and
\* its pending state to the decoded register and so confirms it; nothing
\* else confirms it but an accessor write of the cached value.
C14_PendingReplacedByResponse ==
    [][\A s \in SignalSet : Unconfirmed(s) =>
          LET d == device_id[s]
              register == IF io.kind = "read" THEN regs[d][channel_no[s]]
                          ELSE outbox[d][channel_no[s]]
              mapped == /\ pc = "tx"
                        /\ state'[s] = decode_value(register)
                        /\ new_state'[s] = decode_value(register)
              written == /\ pc = "idle" /\ cur'.op = "set" /\ cur'.sig = s
                         /\ state'[s] = state[s]
          IN  /\ new_state'[s] # new_state[s] => (mapped \/ written)
              /\ state'[s] # state[s] => mapped
              /\ ~Unconfirmed(s)' => (mapped \/ written)]_vars

C14_Witness ==
    /\ CallDone("read") /\ result.outcome = "ok"
    /\ \E s \in SignalSet :
          /\ pre.new_state[s] # None /\ pre.state[s] # pre.new_state[s]
          /\ new_state[s] # pre.new_state[s] /\ ~Unconfirmed(s)

\* C15: an accessor write of a signal without immediate update changes the
\* pending state of that signal and nothing else, an accessor read of one
\* changes nothing, and neither makes an engine call or issues a
\* transaction; with immediate update, the read starts the engine's
\* read_states() before any check is made and the check is made on the
\* states the read left, and the write starts the engine's write_states()
\* with the new pending value already stored.
C15_AccessorEffects ==
    [][/\ (pc = "idle" /\ cur'.op \in {"get", "set"}) =>
            LET s == cur'.sig
                quiet == /\ pc' = "done" /\ io' = NoCall /\ txlog' = <<>>
                         /\ regs' = regs /\ conn' = conn /\ state' = state
                         /\ \A t \in SignalSet \ {s} : new_state'[t] = new_state[t]
            IN  /\ (cur'.op = "set" /\ ~immediate_update[s]) =>
                      /\ quiet
                      /\ new_state'[s] \in {Some(v) : v \in Inputs[s]}
                      /\ result'.outcome = "ok"
                /\ (cur'.op = "get" /\ ~immediate_update[s]) =>
                      /\ quiet
                      /\ new_state'[s] = new_state[s]
                      /\ result' = getter_check(s, state, new_state)
                /\ (cur'.op = "get" /\ immediate_update[s]) =>
                      /\ io' = [eng |-> read_hook[s], kind |-> "read"]
                      /\ pc' = "tx" /\ result' = NoResult
                      /\ state' = state /\ new_state' = new_state
                /\ (cur'.op = "set" /\ immediate_update[s]) =>
                      /\ io' = [eng |-> write_hook[s], kind |-> "write"]
                      /\ new_state'[s] \in {Some(v) : v \in Inputs[s]}
                      /\ pre'.new_state = new_state'
                      /\ state' = state
                      /\ pc' = "tx" => outbox'[device_id[s]][channel_no[s]]
                                            = encode_value(new_state'[s])
       /\ (pc = "done" /\ cur.op = "get" /\ immediate_update[cur.sig]
              /\ result.outcome \in {"ok", "RuntimeError"}) =>
            /\ OnePerDevice(txlog, "read")
            /\ result = getter_check(cur.sig, state, new_state)]_vars

C15_Witness ==
    /\ pc = "done" /\ cur.op = "set" /\ ~immediate_update[cur.sig]
    /\ io = NoCall /\ Unconfirmed(cur.sig) /\ state[cur.sig] # None

\* the register of the response of the running call that maps onto member m
ResponseRegister(m) ==
    IF io.kind = "read" THEN regs[device_id[m]][channel_no[m]]
    ELSE outbox[device_id[m]][channel_no[m]]

\* C16: when an engine call (read_states or write_states) has failed, then
\* for each device either no member on it has been changed by the call, or
\* every member on it holds the value decoded from the device's response.
C16_NoPartialDeviceUpdate ==
    (AnyCallDone /\ result.outcome \notin {"ok", "RuntimeError"}) =>
        \A d \in Devices :
            \/ \A m \in SignalSet : device_id[m] = d =>
                   (state[m] = pre.state[m] /\ new_state[m] = pre.new_state[m])
            \/ /\ io.kind = "write" => outbox[d] # <<>>
               /\ \A m \in SignalSet : device_id[m] = d =>
                     /\ decode_raises(ResponseRegister(m)) = "ok"
                     /\ state[m] = decode_value(ResponseRegister(m))
                     /\ new_state[m] = decode_value(ResponseRegister(m))

\* C17: a write_states() call (one started by an immediate-update accessor
\* write included) that begins while some member's pending state is unset
\* fails in its first attempt, with no transaction issued, no connection
\* opened and every cached and pending state as it was when the call began;
\* so a call that succeeds began with every pending state set.
C17_UnsetPendingFailsWrite ==
    /\ (CallDone("write") /\ \E m \in SignalSet : pre.new_state[m] = None) =>
          /\ result.outcome \in {"TypeError", "ValueError"}
          /\ attempts = 1 /\ fails = 0 /\ txlog = <<>>
          /\ \A e \in Engines : ~conn[e]
          /\ state = pre.state /\ new_state = pre.new_state
    /\ (CallDone("write") /\ result.outcome = "ok") =>
          \A m \in SignalSet : pre.new_state[m] # None

C17_Witness ==
    /\ CallDone("write") /\ cur.op = "set" /\ result.outcome = "TypeError"
    /\ \E m \in SignalSet \ {cur.sig} : new_state[m] = None /\ state[m] = None
    /\ \E m \in SignalSet \ {cur.sig} : new_state[m] # None

\* C18: when an immediate-update accessor write of an out-of-range value has
\* ended in the range error, that value is the signal's pending state; and
\* as long as no in-range accessor write of the signal and no successful
\* read_states() has followed, every write_states() call (an accessor's
\* included) ends in the range error in its first attempt with no
\* transaction issued.
C18_RangeErrorPersists ==
    /\ (pc = "done" /\ cur.op = "set" /\ io.kind = "write"
            /\ result.outcome = "ValueError" /\ encode_raises(cur.written) = "ValueError")
          => new_state[cur.sig] = cur.written
    /\ (CallDone("write") /\ offending # {})
          => (result.outcome = "ValueError" /\ attempts = 1 /\ txlog = <<>>)

-----------------------------------------------------------------------------
(* Properties of the bindings (under SpecBind)                             *)

\* C7: the read and write hooks of the members of every constructed
\* collection are bound to that collection's current engine.
C7_HooksFollowEngine ==
    \A k \in Collections : engine[k] # NoEngine =>
        \A s \in SignalSet : read_hook[s] = engine[k] /\ write_hook[s] = engine[k]

-----------------------------------------------------------------------------
(* Properties of the iteration (under SpecIter)                            *)

\* C10: every pass over a collection yields the members in registration
\* order from the first one on, and yields them all before it stops, also
\* when the pass before it was abandoned.
C10_PassFromFirst ==
    \A k \in Collections :
        /\ Len(pass[k].items) <= Len(Members)
        /\ pass[k].items = SubSeq(Members, 1, Len(pass[k].items))
        /\ pass[k].stopped => pass[k].items = Members

C10_Witness ==
    \E k \in Collections :
        pass[k].after_abandoned /\ pass[k].stopped /\ pass[k].items = Members

-----------------------------------------------------------------------------
(* Properties of the transcoding (under SpecTranscode)                     *)

InSymbolicRange(v) == symbolic_range[1] <= v /\ v <= symbolic_range[2]
InPhysicalRange(p) == physical_range[1] <= p /\ p <= physical_range[2]
Abs(n) == IF n < 0 THEN -n ELSE n

\* C11: for a symbolic value v inside the symbolic range, encode_value(v)
\* returns a raw value inside the physical range, and decoding that raw
\* value returns a symbolic value at most one encoding step
\* (sym_max - sym_min) / (phys_max - phys_min) away from v.
C11_RoundTrip ==
    /\ (calc.fn = "encode" /\ InSymbolicRange(calc.arg))
          => (calc.out.outcome = "ok" /\ InPhysicalRange(calc.out.value[1]))
    /\ (calc.fn = "decode" /\ calc.of # None /\ InSymbolicRange(calc.of[1]))
          => /\ calc.out.outcome = "ok"
             /\ Abs(calc.out.value[1] - calc.of[1]) * (physical_range[2] - physical_range[1])
                   <= symbolic_range[2] - symbolic_range[1]

C11_Witness ==
    /\ calc.fn = "decode" /\ calc.of # None /\ calc.out.outcome = "ok"
    /\ calc.out.value # calc.of
    /\ symbolic_range # DefaultSymbolicRange

\* C12: encode_value raises the range error exactly for the values outside
\* the symbolic range and decode_value exactly for the raw values outside
\* the physical range; for a value inside (the bounds included) each
\* returns a value.
C12_RangeErrors ==
    /\ calc.fn = "encode" =>
          /\ ~InSymbolicRange(calc.arg) => calc.out.outcome = "ValueError"
          /\ InSymbolicRange(calc.arg) => (calc.out.outcome = "ok" /\ calc.out.value # None)
    /\ calc.fn = "decode" =>
          /\ ~InPhysicalRange(calc.arg) => calc.out.outcome = "ValueError"
          /\ InPhysicalRange(calc.arg) => (calc.out.outcome = "ok" /\ calc.out.value # None)

C12_Witness ==
    /\ calc.fn = "decode" /\ calc.of = None
    /\ calc.arg = physical_range[2] + 1 /\ calc.out.outcome = "ValueError"

-----------------------------------------------------------------------------
(* Properties of the configuration (under SpecConfig)                      *)

\* C13: the construction of a Property with a channel index outside 1 .. 8
\* is rejected, and in no write transaction does a position of the array
\* hold a value unless a member of that device has that channel.
C13_ChannelValidated ==
    /\ (pc = "done" /\ cur.op = "property"
            /\ channel_no[cur.sig] \notin 1..CHANNELS_NUMBER)
          => result.outcome # "ok"
    /\ \A i \in 1..Len(txlog) : \A c \in 1..CHANNELS_NUMBER :
          (txlog[i].kind = "write" /\ txlog[i].values[c] # 0)
              => MembersAt(txlog[i].device_id, c) # {}

====
